---- MODULE Spec2Model ----
(***************************************************************************)
(* A model of invidtui's media-player control layer: the MPV wrapper       *)
(* (mediaplayer package: LoadFile, LoadPlaylist, loop mode, the event      *)
(* listener and the error monitor) and the player UI's progress bar.       *)
(***************************************************************************)
EXTENDS Integers, Sequences, FiniteSets, TLC

\* ------------------------------------------------------------------ bounds

\* Longest playlist file that LoadPlaylist is given, in lines.
MaxLines == 2
\* Number of single-video loads (loadVideo -> LoadFile) followed.
MaxLoads == 2
\* Number of QueueClear calls followed.
MaxClears == 1
\* Events mpv has written to the stream that the listener has not read yet.
MaxEvents == 1
\* Number of ToggleLoopMode calls followed in the loop-mode specification.
MaxToggles == 4
\* Largest elapsed time / duration (seconds) fed to the progress bar.
MaxTime == 4
\* Largest width (columns) of the player's description view.
MaxWidth == 7
\* Largest volume (percent) mpv accepts in the model.
MaxVolume == 2
\* Number of VolumeIncrease/VolumeDecrease calls followed.
MaxVolOps == 2
\* Number of Show calls followed.
MaxShows == 3
\* Number of stop-key presses followed.
MaxStops == 1
\* Number of playerUpdateLoop tasks followed.
MaxLoops == 2
\* Largest retry count given to MPV.Init.
MaxRetries == 2
\* Number of MPV.Exit calls followed.
MaxExits == 3
\* Number of MPV.Call/Get/Set calls followed one step at a time.
MaxCalls == 3
\* Number of 'add media' requests (loadSelected calls) followed.
MaxRequests == 3
MaxQueries == 2
MaxClock == 5
MaxSignals == 2

\* Capacity of player.channel (make(chan bool, 10)).
ChannelCap == 10

\* The limit of the add-media semaphore (semaphore.NewWeighted(2); the later
\* player package makes it with 10).
addRateLimit == 2

\* Capacity of Events.FileNumber and Events.ErrorNumber (the channels are made
\* in the mediaplayer package's events file, which is not among the sources).
SlotCap == 2
\* Capacity of Events.ErrorEvent.
ErrorEventCap == 1
\* Capacity of Events.DataEvent and of Events.FileLoadedEvent.
DataEventCap == 1
FileLoadedCap == 1

\* ------------------------------------------------------------------ state

VARIABLES
    stream,       \* mpv's event stream: "open" | "closed" (mpv exited)
    conn,         \* MPV.Connection: "open" | "closed"
    playlist,     \* mpv's queue: sequence of [id, title]
    nextId,       \* the playlist_entry_id mpv gives the next loaded entry
    playing,      \* id of the entry mpv is playing, 0 when idle
    started,      \* ids mpv has already started once
    events,       \* events written by mpv, not yet read by eventListener
    FileNumber,   \* Events.FileNumber
    ErrorNumber,  \* Events.ErrorNumber
    ErrorEvent,   \* Events.ErrorEvent
    monitor,      \* MPV.monitor: entry id -> title
    lpPc,         \* LoadPlaylist: position of the call
    lpFile,       \* LoadPlaylist: the file's lines (their kinds)
    lpReplace,    \* LoadPlaylist: the replace argument
    lpOpenable,   \* LoadPlaylist: whether os.Open(plpath) succeeds
    lpLine,       \* LoadPlaylist: the line the scanner is at
    filesAdded,   \* LoadPlaylist: filesAdded
    lpResult,     \* LoadPlaylist: the returned error ("nil" on success)
    lfPending,    \* LoadFile calls between their loadfile and addToMonitor
    lfCount,      \* number of single-video loads started
    clears,       \* number of QueueClear calls made
    \* history of the run, read by the properties only
    calls,        \* the loadfile commands handed to MPV.Call, in order
    handed,       \* the titles handed to addToMonitor, in order
    asked,        \* lines for which renewLiveURL was invoked
    renewed,      \* lines renewLiveURL reported renewed
    unmonitored,  \* titles whose addToMonitor found no pending id
    published,    \* what startMonitor put on Events.ErrorEvent
    cleared,      \* ids that were in the monitor when clearMonitor ran
    lpQueue0,     \* mpv's queue when LoadPlaylist was called
    lpMonitor0,   \* the monitor when LoadPlaylist was called
    \* loop mode
    loopFile,     \* mpv property loop-file
    loopPlaylist, \* mpv property loop-playlist
    tgPc,         \* ToggleLoopMode: position of the call
    tgLf,         \* LoopMode: the value read for loop-file
    tgMode,       \* ToggleLoopMode: what LoopMode() returned
    tgFrom,       \* history: the loop mode when the toggle began
    tgWrites,     \* history: Set calls of this toggle that succeeded
    toggles,      \* number of ToggleLoopMode calls started
    \* progress bar
    bar           \* last inputs and outputs of updateProgressAndInfo's bar

connVars == <<stream, conn>>
mpvVars  == <<playlist, nextId, playing, started, events>>
chanVars == <<FileNumber, ErrorNumber, ErrorEvent>>
lpVars   == <<lpPc, lpFile, lpReplace, lpOpenable, lpLine, filesAdded, lpResult>>
lfVars   == <<lfPending, lfCount, clears>>
histVars == <<calls, handed, asked, renewed, unmonitored, published, cleared,
              lpQueue0, lpMonitor0>>
loopVars == <<loopFile, loopPlaylist, tgPc, tgLf, tgMode, tgFrom, tgWrites, toggles>>
barVars  == <<bar>>

\* The ticker's period (1 * time.Second), in units of the model's time.
Period == 2

\* The capacity of player.events.
EventsCap == 100

\* The boolean properties of mpv that the status queries read.
BoolProps == {"pause", "mute", "shuffle", "eof-reached", "paused-for-cache"}

\* The loadSelected calls followed, and a call that has not begun.
Requests == 1..MaxRequests
NewRequest == [pc |-> "new", waited |-> FALSE, loaded |-> FALSE, releases |-> 0]
\* No loadSelected has got past its Acquire yet.
NoAdd ==
    [type |-> "none", result |-> "none", loadFailed |-> FALSE, added |-> FALSE,
     history |-> FALSE, shownError |-> FALSE, monitored |-> FALSE]

\* The callers of Show: monitorMPVEvents (on file-loaded) and openPlaylist.
Showers == {"events", "open"}
\* The playerUpdateLoop tasks followed, and one that was not started.
LoopIds == 1..MaxLoops
NoLoop == [state |-> "none", cancelled |-> FALSE]

\* ------------------------------------------------------------------ player state

VARIABLES
    volume,        \* mpv property volume, in halves of a percent
    volPc,         \* VolumeIncrease/VolumeDecrease: position of the call
    volOp,         \* which of the two is running: "inc" | "dec"
    volRead,       \* what Volume() returned to it
    volFailed,     \* history: whether the volume query of this call failed
    volSets,       \* history: the m.Set("volume", v) calls made
    volNoops,      \* history: calls that returned without a Set
    volOps,        \* number of volume calls started
    semCur,        \* player.lock: slots taken (semaphore.Weighted cur)
    semWaiters,    \* player.lock: the waiting Acquire calls, oldest first
    req,           \* the loadSelected calls: position and history
    lastAdd,       \* history: what the latest loadSelected did between Acquire and return
    txPc,          \* MPV.Call/Get/Set: position of the call
    txKind,        \* which of Call, Get, Set is running
    txResult,      \* the error the call returned ("nil" on success)
    txAttempts,    \* history: transport operations attempted, with the connection's state then
    txCount,       \* number of calls started
    initPc,        \* MPV.Init: "start" | "loop" | "done" | "failed"
    numretries,    \* MPV.Init: the numretries argument
    retries,       \* connect: retries, the parsed numretries
    initI,         \* connect: the loop variable i
    initErr,       \* MPV.Init: the returned error ("nil" on success)
    mSocket,       \* MPV.socket: "" until a connection is recorded
    mConnection,   \* MPV.Connection: "nil" | "open" | "closed"
    mpvProc,       \* the mpv process: "none" | "running" | "quitting" | "gone"
    socketFile,    \* whether the socket file exists
    tasks,         \* whether eventListener and startMonitor were started
    attempts,      \* history: conn.Open() calls made
    initFails,     \* history: conn.Open() calls that failed
    exitPc,        \* MPV.Exit: position of the call
    exits,         \* number of Exit calls that returned
    exitBegun,     \* number of Exit calls started
    exitFailed,    \* history: an Exit call failed (returned an error or panicked)
    DataEvent,     \* Events.DataEvent: playlist values queued
    FileLoadedEvent, \* Events.FileLoadedEvent: notifications queued
    plSeen,        \* mpv: the playlist its last playlist-change event carried
    loadedFor,     \* mpv: the playing entry it has written file-loaded for, else 0
    playingFlag,   \* player.playing
    visible,       \* whether player.flex is in the layout
    channel,       \* player.channel: the intents sent and not yet received
    showPc,        \* Show: position of the call of each caller
    shows,         \* number of Show calls started
    stops,         \* number of stop-key presses
    supCtx,        \* playingStatusCheck: the loop its ctx and cancel belong to, 0 for nil
    loops,         \* the playerUpdateLoop tasks: state and whether their ctx is cancelled
    queuePos,      \* mpv property playlist-playing-pos: -1 when nothing plays
    snapshot,      \* what the player shows: "empty" | "live" | "fallback"
    lastRefresh,   \* history: what the latest renderPlayer call met and did
    now,           \* the time, in half periods of the ticker
    deadline,      \* the time of the ticker's next tick
    tC,            \* t.C: whether a tick waits in the ticker's channel
    playerEvents,  \* player.events: the refresh signals sent and not yet received
    signals,       \* number of sendPlayerEvents calls
    tkPc,          \* playerUpdateLoop: \"select\" | \"render\" | \"done\"
    tkSince,       \* history: the time of the latest t.Reset, -1 when there was none
    tkTimer,       \* history: the latest refresh from t.C, and the latest t.Reset before it
    props,         \* mpv properties pause, mute, shuffle, eof-reached, paused-for-cache
    stLast,        \* history: the latest status query, whether its Get failed, and what it returned
    stCount        \* number of status queries made

volVars == <<volume, volPc, volOp, volRead, volFailed, volSets, volNoops, volOps>>
semVars == <<semCur, semWaiters, req, lastAdd>>
txVars == <<txPc, txKind, txResult, txAttempts, txCount>>
sessVars == <<initPc, numretries, retries, initI, initErr, mSocket, mConnection,
              mpvProc, socketFile, tasks, attempts, initFails, exitPc, exits,
              exitBegun, exitFailed>>
dispVars == <<DataEvent, FileLoadedEvent, plSeen, loadedFor>>
progVars == <<playingFlag, visible, channel, showPc, shows, stops, supCtx, loops,
              queuePos, snapshot, lastRefresh>>
tickVars == <<now, deadline, tC, playerEvents, signals, tkPc, tkSince, tkTimer>>
statVars == <<props, stLast, stCount>>

\* Everything of the model above but the connection.
baseVars == <<mpvVars, chanVars, monitor, lpVars, lfVars, histVars, loopVars, barVars>>
extVars == <<volVars, semVars, txVars, sessVars, dispVars, progVars, tickVars,
             statVars>>

\* What the actions of one component leave alone among the variables above.
notVol == <<semVars, txVars, sessVars, dispVars, progVars, tickVars, statVars>>
notSem == <<volVars, txVars, sessVars, dispVars, progVars, tickVars, statVars>>
notTx == <<volVars, semVars, sessVars, dispVars, progVars, tickVars, statVars>>
notSess == <<volVars, semVars, txVars, dispVars, progVars, tickVars, statVars>>
notDisp == <<volVars, semVars, txVars, sessVars, progVars, tickVars, statVars>>
notProg == <<volVars, semVars, txVars, sessVars, dispVars, tickVars, statVars>>
notTick == <<volVars, semVars, txVars, sessVars, dispVars, progVars, statVars>>
notStat == <<volVars, semVars, txVars, sessVars, dispVars, progVars, tickVars>>

vars == <<connVars, baseVars, extVars>>

\* The initial values of the variables above.
InitPlayer ==
    /\ volume = 2
    /\ volPc = "idle"
    /\ volOp = "inc"
    /\ volRead = 0
    /\ volFailed = FALSE
    /\ volSets = {}
    /\ volNoops = 0
    /\ volOps = 0
    /\ semCur = 0
    /\ semWaiters = <<>>
    /\ req = [r \in Requests |-> NewRequest]
    /\ lastAdd = NoAdd
    /\ txPc = "idle"
    /\ txKind = "Call"
    /\ txResult = "nil"
    /\ txAttempts = {}
    /\ txCount = 0
    /\ initPc = "start"
    /\ numretries = <<"number", 0>>
    /\ retries = 0
    /\ initI = 0
    /\ initErr = "nil"
    /\ mSocket = ""
    /\ mConnection = "nil"
    /\ mpvProc = "none"
    /\ socketFile = FALSE
    /\ tasks = FALSE
    /\ attempts = 0
    /\ initFails = 0
    /\ exitPc = "idle"
    /\ exits = 0
    /\ exitBegun = 0
    /\ exitFailed = FALSE
    /\ DataEvent = 0
    /\ FileLoadedEvent = 0
    /\ plSeen = <<>>
    /\ loadedFor = 0
    /\ playingFlag = FALSE
    /\ visible = FALSE
    /\ channel = <<>>
    /\ showPc = [s \in Showers |-> "idle"]
    /\ shows = 0
    /\ stops = 0
    /\ supCtx = 0
    /\ loops = [l \in LoopIds |-> NoLoop]
    /\ queuePos = -1
    /\ snapshot = "empty"
    /\ lastRefresh = [failed |-> FALSE, updated |-> FALSE, cancelled |-> FALSE]
    /\ now = 0
    /\ deadline = Period
    /\ tC = FALSE
    /\ playerEvents = 0
    /\ signals = 0
    /\ tkPc = "select"
    /\ tkSince = -1
    /\ tkTimer = [at |-> -1, since |-> -1]
    /\ props = [p \in BoolProps |-> FALSE]
    /\ stLast = [query |-> "none", failed |-> FALSE, flag |-> FALSE, number |-> 0]
    /\ stCount = 0

\* ------------------------------------------------------------------ values

\* Titles. Every load carries a title of its own: the title parameter of a
\* playlist line, the fetched title of a renewed live video, the fetched title
\* of a single video.
TitleOfLine(i)  == <<"line", i>>
RenewedTitle(i) == <<"renewed", i>>
VideoTitle(k)   == <<"video", k>>
\* The zero value of a Go string, what a map lookup returns for a missing key.
NoTitle == <<"", 0>>

\* The kinds of line a playlist file holds.
LineKinds == {"comment", "blank", "invalid", "entry", "live"}

RECURSIVE SeqsUpTo(_, _)
SeqsUpTo(S, n) ==
    IF n = 0 THEN {<<>>}
    ELSE LET shorter == SeqsUpTo(S, n - 1)
         IN  shorter \cup {Append(s, x) : s \in {t \in shorter : Len(t) = n - 1}, x \in S}

PlaylistFiles == SeqsUpTo(LineKinds, MaxLines)

\* The errors a loadfile command can end with.
ConnectionClosed == "MPV: Connection closed"
MpvError == "mpv: error"
LoadErrors == {ConnectionClosed, MpvError}
OpenFailed == "MPV: Unable to open"
EmptyPlaylist == "MPV: No files were added"

Ids(q) == {q[i].id : i \in 1..Len(q)}

\* ------------------------------------------------------------------ Init

Init ==
    /\ stream = "open"
    /\ conn = "open"
    /\ playlist = <<>>
    /\ nextId = 1
    /\ playing = 0
    /\ started = {}
    /\ events = <<>>
    /\ FileNumber = <<>>
    /\ ErrorNumber = <<>>
    /\ ErrorEvent = <<>>
    /\ monitor = <<>>
    /\ lpPc = "idle"
    /\ lpFile = <<>>
    /\ lpReplace = FALSE
    /\ lpOpenable = TRUE
    /\ lpLine = 0
    /\ filesAdded = 0
    /\ lpResult = "none"
    /\ lfPending = {}
    /\ lfCount = 0
    /\ clears = 0
    /\ calls = <<>>
    /\ handed = <<>>
    /\ asked = {}
    /\ renewed = {}
    /\ unmonitored = {}
    /\ published = {}
    /\ cleared = {}
    /\ lpQueue0 = <<>>
    /\ lpMonitor0 = <<>>
    /\ loopFile = "no"
    /\ loopPlaylist = "no"
    /\ tgPc = "idle"
    /\ tgLf = "no"
    /\ tgMode = ""
    /\ tgFrom = ""
    /\ tgWrites = 0
    /\ toggles = 0
    /\ bar = [elapsed |-> 0, duration |-> 0, width |-> 0, length |-> 0, endlength |-> 0]
    /\ InitPlayer

\* ------------------------------------------------------------------ connection

\* MPV.Exited: the connection is nil or closed.
Exited == conn # "open"

\* What MPV.Call can return for a command: the fail-fast error when Exited(),
\* a transport error when mpv is gone but the connection is not yet closed,
\* and otherwise success or an error reply from mpv.
CallOutcomes ==
    IF Exited THEN {ConnectionClosed}
    ELSE IF stream = "closed" THEN {MpvError}
    ELSE {"nil", MpvError}

\* mpv exits: its event stream ends.
MpvExit ==
    /\ stream = "open"
    /\ stream' = "closed"
    /\ playing' = 0
    /\ UNCHANGED <<conn, playlist, nextId, started, events, chanVars, monitor,
                   lpVars, lfVars, histVars, loopVars, barVars, extVars>>

\* eventListener, on the closed stream: it returns, and its deferred
\* m.Connection.Close() runs.
ListenerClose ==
    /\ stream = "closed"
    /\ events = <<>>
    /\ conn = "open"
    /\ conn' = "closed"
    /\ UNCHANGED <<stream, mpvVars, chanVars, monitor, lpVars, lfVars, histVars,
                   loopVars, barVars, extVars>>

\* ------------------------------------------------------------------ mpv

\* What an event's ExtraData holds under "file_error" and under
\* "playlist_entry_id" when the key is missing, and a file error of mpv.
NoFileError == "absent"
NoEntryId == 0
FileError == "loading failed"

\* mpv starts playing a queue entry and writes start-file with the entry's id.
MpvStartFile ==
    /\ stream = "open"
    /\ playing = 0
    /\ Len(events) < MaxEvents
    /\ \E i \in 1..Len(playlist) :
          /\ playlist[i].id \notin started
          /\ playing' = playlist[i].id
          /\ started' = started \cup {playlist[i].id}
          /\ events' = Append(events, [name |-> "start-file", id |-> playlist[i].id, err |-> NoFileError])
    /\ UNCHANGED <<connVars, playlist, nextId, chanVars, monitor, lpVars, lfVars,
                   histVars, loopVars, barVars, extVars>>

\* The playing entry ends, with or without a file error: mpv writes end-file.
MpvEndFile ==
    /\ stream = "open"
    /\ playing # 0
    /\ Len(events) < MaxEvents
    /\ \E err \in {NoFileError, FileError} :
          events' = Append(events, [name |-> "end-file", id |-> playing, err |-> err])
    /\ playing' = 0
    /\ UNCHANGED <<connVars, playlist, nextId, started, chanVars, monitor, lpVars,
                   lfVars, histVars, loopVars, barVars, extVars>>


\* ------------------------------------------------------------------ event listener

\* eventListener, a start-file event: the entry id is sent to
\* Events.FileNumber (the listener waits while the channel is full).
ListenStartFile ==
    /\ events # <<>>
    /\ conn = "open"
    /\ Head(events).name = "start-file"
    /\ Len(FileNumber) < SlotCap
    /\ FileNumber' = Append(FileNumber, Head(events).id)
    /\ events' = Tail(events)
    /\ UNCHANGED <<connVars, playlist, nextId, playing, started, ErrorNumber, ErrorEvent,
                   monitor, lpVars, lfVars, histVars, loopVars, barVars, extVars>>

\* Faulty variant of ErrorSlot: the error string is not looked at.
ErrorSlotAnyError(e) == e.err # NoFileError /\ e.id # NoEntryId

\* eventListener, end-file: whether the event's entry id goes to
\* Events.ErrorNumber: file_error and playlist_entry_id are both there and
\* the error is not the empty string.
ErrorSlot(e) == e.err # NoFileError /\ e.id # NoEntryId /\ e.err # ""

\* eventListener, an end-file event: with a non-empty file_error the entry id
\* is sent to Events.ErrorNumber, otherwise nothing is.
ListenEndFile ==
    /\ events # <<>>
    /\ conn = "open"
    /\ Head(events).name = "end-file"
    /\ IF ErrorSlot(Head(events))
       THEN /\ Len(ErrorNumber) < SlotCap
            /\ ErrorNumber' = Append(ErrorNumber, Head(events).id)
       ELSE UNCHANGED ErrorNumber
    /\ events' = Tail(events)
    /\ UNCHANGED <<connVars, playlist, nextId, playing, started, FileNumber, ErrorEvent,
                   monitor, lpVars, lfVars, histVars, loopVars, barVars, extVars>>

\* ------------------------------------------------------------------ track monitor

\* The monitor with id -> title recorded.
Record(m, id, title) ==
    [k \in DOMAIN m \cup {id} |-> IF k = id THEN title ELSE m[k]]

\* The monitor with id deleted.
Delete(m, id) == [k \in DOMAIN m \ {id} |-> m[k]]

\* Faulty variant of addToMonitor: without a pending id the title is recorded
\* under the zero id.
addToMonitorZero(title) ==
    /\ handed' = Append(handed, title)
    /\ IF FileNumber # <<>>
       THEN /\ monitor' = Record(monitor, Head(FileNumber), title)
            /\ FileNumber' = Tail(FileNumber)
            /\ UNCHANGED unmonitored
       ELSE /\ unmonitored' = unmonitored \cup {title}
            /\ monitor' = Record(monitor, 0, title)
            /\ UNCHANGED FileNumber

\* Faulty variant of addToMonitor: every pending id is taken from
\* Events.FileNumber, and the first recorded.
addToMonitorAll(title) ==
    /\ handed' = Append(handed, title)
    /\ IF FileNumber # <<>>
       THEN /\ monitor' = Record(monitor, Head(FileNumber), title)
            /\ FileNumber' = <<>>
            /\ UNCHANGED unmonitored
       ELSE /\ unmonitored' = unmonitored \cup {title}
            /\ UNCHANGED <<monitor, FileNumber>>

\* addToMonitor(title): one non-blocking receive from Events.FileNumber; the
\* id received is recorded with the title, and without one nothing is.
addToMonitor(title) ==
    /\ handed' = Append(handed, title)
    /\ IF FileNumber # <<>>
       THEN /\ monitor' = Record(monitor, Head(FileNumber), title)
            /\ FileNumber' = Tail(FileNumber)
            /\ UNCHANGED unmonitored
       ELSE /\ unmonitored' = unmonitored \cup {title}
            /\ UNCHANGED <<monitor, FileNumber>>

\* clearMonitor: the map is replaced by an empty one.
clearMonitor ==
    /\ monitor' = <<>>
    /\ cleared' = cleared \cup DOMAIN monitor

\* What startMonitor reads from the map for an id: a missing id reads as the
\* empty string.
Lookup(m, id) == IF id \in DOMAIN m THEN m[id] ELSE NoTitle

\* Faulty variant of startMonitor: the id is looked up and left in the map.
startMonitorKeep ==
    /\ ErrorNumber # <<>>
    /\ LET id == Head(ErrorNumber)
           title == Lookup(monitor, id)
       IN  /\ monitor' = monitor
           /\ IF Len(ErrorEvent) < ErrorEventCap
              THEN /\ ErrorEvent' = Append(ErrorEvent, title)
                   /\ published' = published \cup
                          {[id |-> id, title |-> title, afterClear |-> id \in cleared]}
              ELSE UNCHANGED <<ErrorEvent, published>>
    /\ ErrorNumber' = Tail(ErrorNumber)
    /\ UNCHANGED <<connVars, mpvVars, FileNumber, lpVars, lfVars, calls, handed, asked,
                   renewed, unmonitored, cleared, lpQueue0, lpMonitor0, loopVars, barVars, extVars>>

\* startMonitor, one id from Events.ErrorNumber: the title is looked up and
\* the id deleted under the lock, then the title is sent to Events.ErrorEvent
\* if the channel has room.
startMonitor ==
    /\ ErrorNumber # <<>>
    /\ LET id == Head(ErrorNumber)
           title == Lookup(monitor, id)
       IN  /\ monitor' = Delete(monitor, id)
           /\ IF Len(ErrorEvent) < ErrorEventCap
              THEN /\ ErrorEvent' = Append(ErrorEvent, title)
                   /\ published' = published \cup
                          {[id |-> id, title |-> title, afterClear |-> id \in cleared]}
              ELSE UNCHANGED <<ErrorEvent, published>>
    /\ ErrorNumber' = Tail(ErrorNumber)
    /\ UNCHANGED <<connVars, mpvVars, FileNumber, lpVars, lfVars, calls, handed, asked,
                   renewed, unmonitored, cleared, lpQueue0, lpMonitor0, loopVars, barVars, extVars>>

\* monitorMPVEvents: a title received from Events.ErrorEvent is shown as
\* "Player: Unable to play <title>".
monitorMPVEvents ==
    /\ ErrorEvent # <<>>
    /\ ErrorEvent' = Tail(ErrorEvent)
    /\ UNCHANGED <<connVars, mpvVars, FileNumber, ErrorNumber, monitor, lpVars, lfVars,
                   histVars, loopVars, barVars, extVars>>

\* QueueClear (Hide): playlist-clear, which keeps only the playing entry, then
\* clearMonitor.
QueueClear ==
    /\ clears < MaxClears
    /\ clears' = clears + 1
    /\ IF Exited \/ stream = "closed"
       THEN UNCHANGED playlist
       ELSE playlist' = SelectSeq(playlist, LAMBDA e : e.id = playing)
    /\ clearMonitor
    /\ UNCHANGED <<connVars, nextId, playing, started, events, chanVars, lpVars,
                   lfPending, lfCount, calls, handed, asked, renewed, unmonitored,
                   published, lpQueue0, lpMonitor0, loopVars, barVars, extVars>>

\* ------------------------------------------------------------------ loading

\* m.Call("loadfile", uri, "append-play", options) ending with r: the command
\* is logged; on success mpv appends the entry and gives it the next id.
loadfile(by, title, r) ==
    /\ calls' = Append(calls, [by |-> by, title |-> title, result |-> r,
                               id |-> IF r = "nil" THEN nextId ELSE 0])
    /\ IF r = "nil"
       THEN /\ playlist' = Append(playlist, [id |-> nextId, title |-> title])
            /\ nextId' = nextId + 1
       ELSE UNCHANGED <<playlist, nextId>>

\* loadVideo -> LoadFile for a single video, up to the loadfile command: a
\* failed command ends the call, a successful one is followed by addToMonitor.
LoadFile ==
    /\ lfCount < MaxLoads
    /\ lfCount' = lfCount + 1
    /\ \E r \in CallOutcomes :
          /\ loadfile("LoadFile", VideoTitle(lfCount + 1), r)
          /\ lfPending' = IF r = "nil" THEN lfPending \cup {VideoTitle(lfCount + 1)}
                          ELSE lfPending
    /\ UNCHANGED <<connVars, playing, started, events, chanVars, monitor, lpVars, clears,
                   handed, asked, renewed, unmonitored, published, cleared,
                   lpQueue0, lpMonitor0, loopVars, barVars, extVars>>

\* LoadFile, after the successful command: m.addToMonitor(title).
LoadFileMonitor ==
    /\ \E title \in lfPending :
          /\ addToMonitor(title)
          /\ lfPending' = lfPending \ {title}
    /\ UNCHANGED <<connVars, mpvVars, ErrorNumber, ErrorEvent, lpVars, lfCount, clears,
                   calls, asked, renewed, published, cleared,
                   lpQueue0, lpMonitor0, loopVars, barVars, extVars>>

\* The one single-video load that runs beside the LoadPlaylist call.
PriorLoad ==
    /\ lfCount = 0
    /\ LoadFile

\* Faulty variant of Skipped: the scanner without the utils.IsValidURL check.
SkippedNoUrlCheck(kind) == kind \in {"comment", "blank"}

\* Lines the scanner passes over: a comment, an empty line, and a line that
\* utils.IsValidURL rejects.
Skipped(kind) == kind \in {"comment", "blank", "invalid"}

\* Faulty variant of LoadPlaylist: replace clears the queue and leaves the
\* monitor as it is.
LoadPlaylistNoReset ==
    /\ lpPc = "idle"
    /\ \E file \in PlaylistFiles, replace \in BOOLEAN, openable \in BOOLEAN :
          /\ (~openable => file = <<>>)
          /\ lpFile' = file
          /\ lpReplace' = replace
          /\ lpOpenable' = openable
          /\ IF replace
             THEN /\ IF Exited \/ stream = "closed"
                     THEN UNCHANGED <<playlist, playing>>
                     ELSE playlist' = <<>> /\ playing' = 0
                  /\ UNCHANGED <<monitor, cleared>>
             ELSE UNCHANGED <<playlist, playing, monitor, cleared>>
    /\ lpPc' = "open"
    /\ lpLine' = 0
    /\ filesAdded' = 0
    /\ lpQueue0' = playlist
    /\ lpMonitor0' = monitor
    /\ UNCHANGED <<connVars, nextId, started, events, chanVars, lpResult, lfVars,
                   calls, handed, asked, renewed, unmonitored, published,
                   loopVars, barVars, extVars>>

\* LoadPlaylist(plpath, replace, renewLiveURL), up to os.Open: with replace
\* the queue is cleared (playlist-clear, playlist-remove current) and the
\* monitor reset, before the file is opened.
LoadPlaylist ==
    /\ lpPc = "idle"
    /\ \E file \in PlaylistFiles, replace \in BOOLEAN, openable \in BOOLEAN :
          /\ (~openable => file = <<>>)
          /\ lpFile' = file
          /\ lpReplace' = replace
          /\ lpOpenable' = openable
          /\ IF replace
             THEN /\ IF Exited \/ stream = "closed"
                     THEN UNCHANGED <<playlist, playing>>
                     ELSE playlist' = <<>> /\ playing' = 0
                  /\ clearMonitor
             ELSE UNCHANGED <<playlist, playing, monitor, cleared>>
    /\ lpPc' = "open"
    /\ lpLine' = 0
    /\ filesAdded' = 0
    /\ lpQueue0' = playlist
    /\ lpMonitor0' = monitor
    /\ UNCHANGED <<connVars, nextId, started, events, chanVars, lpResult, lfVars,
                   calls, handed, asked, renewed, unmonitored, published,
                   loopVars, barVars, extVars>>

\* os.Open(plpath): a file that cannot be opened ends the call.
LpOpen ==
    /\ lpPc = "open"
    /\ IF lpOpenable
       THEN lpPc' = "scan" /\ lpLine' = 1 /\ UNCHANGED lpResult
       ELSE lpPc' = "done" /\ lpResult' = OpenFailed /\ UNCHANGED lpLine
    /\ UNCHANGED <<connVars, mpvVars, chanVars, monitor, lpFile, lpReplace, lpOpenable,
                   filesAdded, lfVars, histVars, loopVars, barVars, extVars>>

\* Faulty variant of LoadLine: a failed loadfile is passed over (continue)
\* instead of returned.
LoadLineContinue ==
    \E r \in CallOutcomes :
       /\ loadfile("LoadPlaylist", TitleOfLine(lpLine), r)
       /\ UNCHANGED lpResult
       /\ IF r = "nil"
          THEN lpPc' = "monitor" /\ filesAdded' = filesAdded + 1 /\ UNCHANGED lpLine
          ELSE lpPc' = "scan" /\ lpLine' = lpLine + 1 /\ UNCHANGED filesAdded

\* The loadfile command for the current line, and what follows it: an error is
\* returned as it is, a success is counted and followed by addToMonitor.
LoadLine ==
    \E r \in CallOutcomes :
       /\ loadfile("LoadPlaylist", TitleOfLine(lpLine), r)
       /\ UNCHANGED lpLine
       /\ IF r = "nil"
          THEN lpPc' = "monitor" /\ filesAdded' = filesAdded + 1 /\ UNCHANGED lpResult
          ELSE lpPc' = "done" /\ lpResult' = r /\ UNCHANGED filesAdded

\* One turn of the scan loop for a line the scanner passes over.
LpSkip ==
    /\ lpPc = "scan"
    /\ lpLine <= Len(lpFile)
    /\ Skipped(lpFile[lpLine])
    /\ lpLine' = lpLine + 1
    /\ UNCHANGED <<connVars, mpvVars, chanVars, monitor, lpPc, lpFile, lpReplace,
                   lpOpenable, filesAdded, lpResult, lfVars, histVars, loopVars, barVars, extVars>>

\* One turn of the scan loop for an entry that is not live: its loadfile.
LpEntry ==
    /\ lpPc = "scan"
    /\ lpLine <= Len(lpFile)
    /\ ~Skipped(lpFile[lpLine])
    /\ lpFile[lpLine] # "live"
    /\ LoadLine
    /\ UNCHANGED <<connVars, playing, started, events, chanVars, monitor,
                   lpFile, lpReplace, lpOpenable, lfVars, handed, asked, renewed,
                   unmonitored, published, cleared, lpQueue0, lpMonitor0,
                   loopVars, barVars, extVars>>

\* Faulty variant of LpReturn: the end of the scan without the filesAdded check.
LpReturnNoCheck ==
    /\ lpPc = "scan"
    /\ lpLine > Len(lpFile)
    /\ lpPc' = "done"
    /\ lpResult' = "nil"
    /\ UNCHANGED <<connVars, mpvVars, chanVars, monitor, lpFile, lpReplace,
                   lpOpenable, lpLine, filesAdded, lfVars, histVars, loopVars, barVars, extVars>>

\* Faulty variant of LpReturn: a line that was reported renewed counts as a
\* file added.
LpReturnCountsRenewed ==
    /\ lpPc = "scan"
    /\ lpLine > Len(lpFile)
    /\ lpPc' = "done"
    /\ lpResult' = IF filesAdded = 0 /\ renewed = {} THEN EmptyPlaylist ELSE "nil"
    /\ UNCHANGED <<connVars, mpvVars, chanVars, monitor, lpFile, lpReplace,
                   lpOpenable, lpLine, filesAdded, lfVars, histVars, loopVars, barVars, extVars>>

\* The end of the scan: no file added is an error.
LpReturn ==
    /\ lpPc = "scan"
    /\ lpLine > Len(lpFile)
    /\ lpPc' = "done"
    /\ lpResult' = IF filesAdded = 0 THEN EmptyPlaylist ELSE "nil"
    /\ UNCHANGED <<connVars, mpvVars, chanVars, monitor, lpFile, lpReplace,
                   lpOpenable, lpLine, filesAdded, lfVars, histVars, loopVars, barVars, extVars>>

\* Faulty variant of AfterRenew: the answer of renewLiveURL is ignored.
AfterRenewNoSkip(isRenewed) == "load"

\* Where the scan goes after renewLiveURL returned: a renewed line is passed
\* over (continue), any other is loaded.
AfterRenew(isRenewed) == IF isRenewed THEN "scan" ELSE "load"

\* A line with length=Live: renewLiveURL is checkLiveURL. An expired URL makes
\* it call loadVideo, which fetches the video and on success calls LoadFile,
\* ignoring its result; checkLiveURL returns expired.
LpRenew ==
    /\ lpPc = "scan"
    /\ lpLine <= Len(lpFile)
    /\ lpFile[lpLine] = "live"
    /\ asked' = asked \cup {lpLine}
    /\ \E expired \in BOOLEAN, fetched \in BOOLEAN :
          /\ renewed' = IF expired THEN renewed \cup {lpLine} ELSE renewed
          /\ IF expired /\ fetched
             THEN \E r \in CallOutcomes :
                     /\ loadfile("LoadFile", RenewedTitle(lpLine), r)
                     /\ lpPc' = IF r = "nil" THEN "renewed" ELSE AfterRenew(expired)
                     /\ lpLine' = IF lpPc' = "scan" THEN lpLine + 1 ELSE lpLine
             ELSE /\ lpPc' = AfterRenew(expired)
                  /\ lpLine' = IF lpPc' = "scan" THEN lpLine + 1 ELSE lpLine
                  /\ UNCHANGED <<calls, playlist, nextId>>
    /\ UNCHANGED <<connVars, playing, started, events, chanVars, monitor,
                   lpFile, lpReplace, lpOpenable, filesAdded, lpResult, lfVars,
                   handed, unmonitored, published, cleared, lpQueue0, lpMonitor0,
                   loopVars, barVars, extVars>>

\* The renewal's LoadFile, after its successful command: addToMonitor; then
\* checkLiveURL returns that the line was renewed.
LpRenewMonitor ==
    /\ lpPc = "renewed"
    /\ addToMonitor(RenewedTitle(lpLine))
    /\ lpPc' = AfterRenew(lpLine \in renewed)
    /\ lpLine' = IF lpPc' = "scan" THEN lpLine + 1 ELSE lpLine
    /\ UNCHANGED <<connVars, mpvVars, ErrorNumber, ErrorEvent, lpFile, lpReplace,
                   lpOpenable, filesAdded, lpResult, lfVars, calls, asked, renewed,
                   published, cleared, lpQueue0, lpMonitor0, loopVars, barVars, extVars>>

\* A live line that was not renewed is loaded like any other entry.
LpLoad ==
    /\ lpPc = "load"
    /\ LoadLine
    /\ UNCHANGED <<connVars, playing, started, events, chanVars, monitor,
                   lpFile, lpReplace, lpOpenable, lfVars, handed, asked, renewed,
                   unmonitored, published, cleared, lpQueue0, lpMonitor0,
                   loopVars, barVars, extVars>>

\* After a line's successful loadfile: m.addToMonitor(title).
LpMonitor ==
    /\ lpPc = "monitor"
    /\ addToMonitor(TitleOfLine(lpLine))
    /\ lpPc' = "scan"
    /\ lpLine' = lpLine + 1
    /\ UNCHANGED <<connVars, mpvVars, ErrorNumber, ErrorEvent, lpFile, lpReplace,
                   lpOpenable, filesAdded, lpResult, lfVars, calls, asked, renewed,
                   published, cleared, lpQueue0, lpMonitor0, loopVars, barVars, extVars>>

\* ------------------------------------------------------------------ specifications

\* The track monitor: single-video loads, mpv's start-file and end-file
\* events, the event listener, the monitor's drain task and QueueClear.
Next ==
    \/ MpvExit
    \/ ListenerClose
    \/ MpvStartFile
    \/ MpvEndFile
    \/ ListenStartFile
    \/ ListenEndFile
    \/ startMonitor
    \/ monitorMPVEvents
    \/ QueueClear
    \/ LoadFile
    \/ LoadFileMonitor

Spec == Init /\ [][Next]_vars

\* One LoadPlaylist call, beside one single-video load and mpv starting entries.
NextPlaylist ==
    \/ MpvExit
    \/ ListenerClose
    \/ MpvStartFile
    \/ ListenStartFile
    \/ PriorLoad
    \/ LoadFileMonitor
    \/ LoadPlaylist
    \/ LpOpen
    \/ LpSkip
    \/ LpEntry
    \/ LpRenew
    \/ LpRenewMonitor
    \/ LpLoad
    \/ LpMonitor
    \/ LpReturn

SpecPlaylist == Init /\ [][NextPlaylist]_vars

\* ------------------------------------------------------------------ LoadPlaylist: properties

\* The loadfile commands LoadPlaylist itself issued, and the titles it handed
\* to addToMonitor itself (the renewal callback's are LoadFile's).
LpCalls == SelectSeq(calls, LAMBDA c : c.by = "LoadPlaylist")
LpHanded == SelectSeq(handed, LAMBDA t : t[1] = "line")
AllSucceeded(cs) == \A i \in 1..Len(cs) : cs[i].result = "nil"

\* A line that is no comment, not empty, and parses as a URI.
Parseable(kind) == kind \in {"entry", "live"}

\* The titles of the file's parseable lines outside `skip`, in file order.
RECURSIVE EntryTitlesFrom(_, _, _)
EntryTitlesFrom(file, skip, i) ==
    IF i > Len(file) THEN <<>>
    ELSE (IF Parseable(file[i]) /\ i \notin skip THEN <<TitleOfLine(i)>> ELSE <<>>)
         \o EntryTitlesFrom(file, skip, i + 1)
EntryTitles(file, skip) == EntryTitlesFrom(file, skip, 1)

TitlesOf(cs) == [i \in 1..Len(cs) |-> cs[i].title]

C4_AbortOnLoadError ==
    \A i \in 1..Len(LpCalls) :
        LpCalls[i].result # "nil" =>
            /\ i = Len(LpCalls)
            /\ lpPc = "done"
            /\ lpResult = LpCalls[i].result
            /\ LpCalls[i].title = TitleOfLine(lpLine)
            /\ \A j \in 1..(i - 1) : LpCalls[j].id \in Ids(playlist)

C4_Witness ==
    /\ lpPc = "done"
    /\ lpResult \in LoadErrors
    /\ Len(LpCalls) >= 2
    /\ lpLine < Len(lpFile) + 1
    /\ LpCalls[1].id \in Ids(playlist)

IsPrefix(p, q) == Len(p) <= Len(q) /\ \A i \in 1..Len(p) : p[i] = q[i]

\* C5 as stated: after LoadPlaylist failed with "Unable to open" or "No files
\* were added", the queue still begins with the entries it held at the call and
\* the monitor still holds the entries it held at the call.
C5_NoPartialState ==
    (lpPc = "done" /\ lpResult \in {OpenFailed, EmptyPlaylist}) =>
        /\ IsPrefix(lpQueue0, playlist)
        /\ \A id \in DOMAIN lpMonitor0 :
              id \in DOMAIN monitor /\ monitor[id] = lpMonitor0[id]

\* ------------------------------------------------------------------ track monitor: properties

Titles(m) == {m[id] : id \in DOMAIN m}

\* The title of the entry mpv gave id to: the title of the loadfile command
\* that was answered with it.
Assigned(id, title) ==
    \E i \in 1..Len(calls) : calls[i].id = id /\ calls[i].title = title

\* C8: a title whose addToMonitor found no pending id is not in the monitor
\* map, and no error event ever published it.
C8_UnmonitoredNeverReported ==
    \A t \in unmonitored :
        /\ t \notin Titles(monitor)
        /\ \A p \in published : p.title # t

C8_Witness ==
    /\ unmonitored # {}
    /\ \E p \in published : p.title # NoTitle

\* C9 as stated: an error for an id that was in the monitor when clearMonitor
\* ran puts nothing on Events.ErrorEvent.
C9_SilentAfterClear ==
    \A p \in published : ~p.afterClear

\* C10 as stated: a title published for an error on id i is the title of the
\* entry mpv gave id i.
C10_ErrorsAttributed ==
    \A p \in published : p.title # NoTitle => Assigned(p.id, p.title)

\* ------------------------------------------------------------------ loop mode

\* A property read or write reaches mpv unless the connection is closed
\* (Exited) or mpv is gone.
Reachable == ~Exited /\ stream = "open"

\* loop-file / loop-playlist is active.
Active(v) == v = "yes" \/ v = "inf"

\* LoopMode's answer for the two values read.
LoopModeOf(lf, lp) ==
    IF Active(lf) THEN "loop-file"
    ELSE IF Active(lp) THEN "loop-playlist"
    ELSE ""

\* Faulty variant of Writes: leaving loop-file, loop-playlist is set first.
WritesSwapped(mode) ==
    CASE mode = "" ->
            <<[prop |-> "loop-file", value |-> "yes"], [prop |-> "loop-playlist", value |-> "no"]>>
      [] mode = "loop-file" ->
            <<[prop |-> "loop-playlist", value |-> "yes"], [prop |-> "loop-file", value |-> "no"]>>
      [] OTHER ->
            <<[prop |-> "loop-file", value |-> "no"], [prop |-> "loop-playlist", value |-> "no"]>>

\* The two Set calls ToggleLoopMode makes for what LoopMode() returned, in
\* order.
Writes(mode) ==
    CASE mode = "" ->
            <<[prop |-> "loop-file", value |-> "yes"], [prop |-> "loop-playlist", value |-> "no"]>>
      [] mode = "loop-file" ->
            <<[prop |-> "loop-file", value |-> "no"], [prop |-> "loop-playlist", value |-> "yes"]>>
      [] OTHER ->
            <<[prop |-> "loop-file", value |-> "no"], [prop |-> "loop-playlist", value |-> "no"]>>

\* ToggleLoopMode begins: LoopMode() reads loop-file; a failed read makes
\* LoopMode return "".
TgReadFile ==
    /\ tgPc = "idle"
    /\ toggles < MaxToggles
    /\ toggles' = toggles + 1
    /\ tgFrom' = LoopModeOf(loopFile, loopPlaylist)
    /\ tgWrites' = 0
    /\ IF Reachable
       THEN tgLf' = loopFile /\ tgPc' = "readPlaylist" /\ UNCHANGED tgMode
       ELSE tgMode' = "" /\ tgPc' = "set1" /\ UNCHANGED tgLf
    /\ UNCHANGED <<connVars, mpvVars, chanVars, monitor, lpVars, lfVars, histVars,
                   loopFile, loopPlaylist, barVars, extVars>>

\* LoopMode() reads loop-playlist and answers.
TgReadPlaylist ==
    /\ tgPc = "readPlaylist"
    /\ tgMode' = IF Reachable THEN LoopModeOf(tgLf, loopPlaylist) ELSE ""
    /\ tgPc' = "set1"
    /\ UNCHANGED <<connVars, mpvVars, chanVars, monitor, lpVars, lfVars, histVars,
                   loopFile, loopPlaylist, tgLf, tgFrom, tgWrites, toggles, barVars, extVars>>

\* One of ToggleLoopMode's two Set calls; a Set that cannot reach mpv changes
\* nothing, and its error is dropped.
TgSet ==
    /\ tgPc \in {"set1", "set2"}
    /\ LET w == Writes(tgMode)[IF tgPc = "set1" THEN 1 ELSE 2] IN
          IF Reachable
          THEN /\ loopFile' = IF w.prop = "loop-file" THEN w.value ELSE loopFile
               /\ loopPlaylist' = IF w.prop = "loop-playlist" THEN w.value ELSE loopPlaylist
               /\ tgWrites' = tgWrites + 1
          ELSE UNCHANGED <<loopFile, loopPlaylist, tgWrites>>
    /\ tgPc' = IF tgPc = "set1" THEN "set2" ELSE "idle"
    /\ UNCHANGED <<connVars, mpvVars, chanVars, monitor, lpVars, lfVars, histVars,
                   tgLf, tgMode, tgFrom, toggles, barVars, extVars>>

NextLoop ==
    \/ MpvExit
    \/ ListenerClose
    \/ TgReadFile
    \/ TgReadPlaylist
    \/ TgSet

SpecLoop == Init /\ [][NextLoop]_vars

\* The mode that follows m in the cycle off -> loop-file -> loop-playlist -> off.
Successor(m) ==
    CASE m = "" -> "loop-file"
      [] m = "loop-file" -> "loop-playlist"
      [] OTHER -> ""

\* C6: loop-file and loop-playlist are never both active, also between the two
\* writes of a toggle and when a write fails; and a toggle whose two writes
\* reached mpv has taken the mode to its successor in the cycle.
C6_LoopCycle ==
    /\ ~(Active(loopFile) /\ Active(loopPlaylist))
    /\ (tgPc = "idle" /\ tgWrites = 2) =>
          LoopModeOf(loopFile, loopPlaylist) = Successor(tgFrom)

C6_Witness ==
    /\ tgPc = "idle"
    /\ toggles >= 3
    /\ tgWrites = 2
    /\ tgFrom = "loop-playlist"
    /\ LoopModeOf(loopFile, loopPlaylist) = ""

\* ------------------------------------------------------------------ progress bar

\* Go's integer division, which truncates toward zero (b > 0).
GoDiv(a, b) == IF a >= 0 THEN a \div b ELSE -((-a) \div b)

\* Faulty variant of Bar: without the clamp of timepos to duration.
BarNoClamp(timepos, duration, width) ==
    LET t1 == IF timepos < 0 THEN 0 ELSE timepos
        d1 == IF duration <= 0 THEN 1 ELSE duration
        w  == GoDiv(width, 2)
        length == GoDiv(w * t1, d1)
        endlength == IF w - length < 0 THEN w ELSE w - length
    IN  [elapsed |-> timepos, duration |-> duration, width |-> w,
         length |-> length, endlength |-> endlength]

\* The bar of updateProgressAndInfo for a position, a duration and the width
\* of the description view: the halved width, the number of filled cells and
\* the number of empty cells.
Bar(timepos, duration, width) ==
    LET t1 == IF timepos < 0 THEN 0 ELSE timepos
        d1 == IF duration <= 0 THEN 1 ELSE duration
        t2 == IF t1 > d1 THEN d1 ELSE t1
        w  == GoDiv(width, 2)
        length == GoDiv(w * t2, d1)
        endlength == IF w - length < 0 THEN w ELSE w - length
    IN  [elapsed |-> timepos, duration |-> duration, width |-> w,
         length |-> length, endlength |-> endlength]

\* renderPlayer: the bar is computed from what mpv reports.
RenderBar ==
    /\ \E timepos \in -1..MaxTime, duration \in -1..MaxTime, width \in 0..MaxWidth :
          bar' = Bar(timepos, duration, width)
    /\ UNCHANGED <<connVars, mpvVars, chanVars, monitor, lpVars, lfVars, histVars,
                   loopVars, extVars>>

NextBar == RenderBar

SpecBar == Init /\ [][NextBar]_vars

\* C7 as stated: the filled length is in 0..W, 0 at elapsed = 0, W at
\* elapsed >= duration, 0 for a negative elapsed, and filled + empty = W.
C7_BarAsStated ==
    /\ bar.length \in 0..bar.width
    /\ (bar.elapsed = 0 => bar.length = 0)
    /\ (bar.elapsed >= bar.duration => bar.length = bar.width)
    /\ (bar.elapsed < 0 => bar.length = 0)
    /\ bar.length + bar.endlength = bar.width

\* C7, amended: as stated, but the bar is full (W) when elapsed >= duration
\* and elapsed >= 1: a duration <= 0 counts as 1.
C7_Bar ==
    /\ bar.length \in 0..bar.width
    /\ (bar.elapsed = 0 => bar.length = 0)
    /\ ((bar.elapsed >= bar.duration /\ bar.elapsed >= 1) => bar.length = bar.width)
    /\ (bar.elapsed < 0 => bar.length = 0)
    /\ bar.length + bar.endlength = bar.width

C7_Witness ==
    /\ bar.width >= 2
    /\ bar.duration >= 2
    /\ bar.elapsed > bar.duration
    /\ bar.length = bar.width
    /\ bar.endlength = 0

\* ------------------------------------------------------------------ volume

\* What MPV.Get can return for a property: as for MPV.Call.
GetOutcomes == CallOutcomes

\* Go's int(x) of the float64 mpv returns, x given in halves.
IntOfHalves(h) == GoDiv(h, 2)

\* MPV.Volume() for the outcome of its Get: -1 when the query failed.
Volume(r) == IF r # "nil" THEN -1 ELSE IntOfHalves(volume)

\* The volume of mpv is changed from outside the program (mpv's own window).
MpvVolume ==
    /\ stream = "open"
    /\ \E h \in 0..(2 * MaxVolume) : h # volume /\ volume' = h
    /\ UNCHANGED <<connVars, baseVars, volPc, volOp, volRead, volFailed, volSets,
                   volNoops, volOps, notVol>>

\* VolumeIncrease/VolumeDecrease, first line: vol := m.Volume().
VolumeQuery ==
    /\ volPc = "idle"
    /\ volOps < MaxVolOps
    /\ \E op \in {"inc", "dec"}, r \in GetOutcomes :
          /\ volOp' = op
          /\ volRead' = Volume(r)
          /\ volFailed' = (r # "nil")
    /\ volPc' = "queried"
    /\ volOps' = volOps + 1
    /\ UNCHANGED <<connVars, baseVars, volume, volSets, volNoops, notVol>>

\* The value VolumeIncrease/VolumeDecrease hand to m.Set.
VolumeTarget == IF volOp = "inc" THEN volRead + 1 ELSE volRead - 1

\* m.Set("volume", v): mpv takes the value when the call reaches it and the
\* value is within the property's range.
SetVolume(v) ==
    /\ volSets' = volSets \cup {[op |-> volOp, value |-> v, failed |-> volFailed]}
    /\ volume' = IF Reachable /\ v \in 0..MaxVolume THEN 2 * v ELSE volume
    /\ UNCHANGED volNoops

\* Faulty variant of VolumeStep: without the vol == -1 check.
VolumeStepNoCheck ==
    /\ volPc = "queried"
    /\ SetVolume(VolumeTarget)
    /\ volPc' = "idle"
    /\ UNCHANGED <<connVars, baseVars, volOp, volRead, volFailed, volOps, notVol>>

\* VolumeIncrease/VolumeDecrease after the query: return on -1, else Set.
VolumeStep ==
    /\ volPc = "queried"
    /\ IF volRead = -1
       THEN /\ volNoops' = volNoops + 1
            /\ UNCHANGED <<volume, volSets>>
       ELSE SetVolume(VolumeTarget)
    /\ volPc' = "idle"
    /\ UNCHANGED <<connVars, baseVars, volOp, volRead, volFailed, volOps, notVol>>

\* The volume calls, with mpv exiting and the connection closing at any time.
NextVolume ==
    \/ MpvExit
    \/ ListenerClose
    \/ MpvVolume
    \/ VolumeQuery
    \/ VolumeStep

SpecVolume == Init /\ [][NextVolume]_vars

\* C11: when the volume query fails, Volume() returns -1 and
\* VolumeIncrease/VolumeDecrease make no Set call at all: no Set call made so
\* far belongs to a call whose query failed.
C11_FailedQueryNoSet ==
    /\ (volPc = "queried" /\ volFailed) => volRead = -1
    /\ \A c \in volSets : ~c.failed

\* A volume call whose query failed has returned, next to one that did set.
C11_Witness ==
    /\ volPc = "idle"
    /\ volFailed
    /\ volNoops > 0
    /\ volSets # {}

\* ------------------------------------------------------------------ add media

\* The media types loadSelected is given; "other" stands for every type its
\* switch sends to default.
MediaTypes == {"video", "playlist", "other"}
\* Errors of the Invidious fetch (inv.VideoLoadParams, inv.Playlist).
RateLimit == "Rate-limit exceeded"
FetchFailed == "fetch failed"
FetchOutcomes == {"nil", RateLimit, FetchFailed}
UnableToLoad == "MPV: Unable to load"

\* The calls that hold a slot: past Acquire, before the deferred Release.
Holding == {r \in Requests : req[r].pc \in {"running", "leaving"}}

\* loadSelected: player.lock.Acquire(context.Background(), 1). The slot is
\* taken at once when one is free and nobody waits; else the call queues up.
Acquire(r) ==
    /\ req[r].pc = "new"
    /\ IF addRateLimit - semCur >= 1 /\ semWaiters = <<>>
       THEN /\ semCur' = semCur + 1
            /\ req' = [req EXCEPT ![r].pc = "running"]
            /\ UNCHANGED semWaiters
       ELSE /\ semWaiters' = Append(semWaiters, r)
            /\ req' = [req EXCEPT ![r].pc = "waiting", ![r].waited = TRUE]
            /\ UNCHANGED semCur
    /\ UNCHANGED <<connVars, baseVars, lastAdd, notSem>>

\* MPV.LoadFile's result for the outcome of its loadfile command.
LoadFileResult(call) == IF call # "nil" THEN UnableToLoad ELSE "nil"

\* loadVideo: the fetch, then LoadFile, whose result is not looked at.
loadVideo(fetch, call) ==
    IF fetch # "nil"
    THEN [err |-> fetch, loadFailed |-> FALSE, monitored |-> FALSE]
    ELSE [err |-> "nil",
          loadFailed |-> LoadFileResult(call) # "nil",
          monitored |-> LoadFileResult(call) = "nil"]

\* loadPlaylist: the fetch, then loadVideo for every video, results dropped.
loadPlaylist(fetch) == [err |-> fetch, loadFailed |-> FALSE, monitored |-> FALSE]

\* loadSelected from the switch on info.Type to its return (the Release is
\* deferred).
LoadSelected(r) ==
    /\ req[r].pc = "running"
    /\ \E type \in MediaTypes, fetch \in FetchOutcomes, call \in CallOutcomes :
          LET res == IF type = "video" THEN loadVideo(fetch, call)
                     ELSE loadPlaylist(fetch)
          IN  /\ req' = [req EXCEPT ![r].pc = "leaving",
                                    ![r].loaded = type # "other"]
              /\ lastAdd' =
                    IF type = "other"
                    THEN [NoAdd EXCEPT !.type = type]
                    ELSE [type |-> type,
                          result |-> res.err,
                          loadFailed |-> res.loadFailed,
                          monitored |-> res.monitored,
                          shownError |-> res.err \notin {"nil", RateLimit},
                          history |-> res.err = "nil",
                          added |-> res.err = "nil"]
    /\ UNCHANGED <<connVars, baseVars, semCur, semWaiters, notSem>>

\* Number of waiting calls a release wakes (notifyWaiters): the oldest ones,
\* as long as a slot is free.
Woken(cur, waiters) ==
    IF Len(waiters) < addRateLimit - cur THEN Len(waiters) ELSE addRateLimit - cur

\* Faulty variant of Release: the slot is given back, no waiting call is woken.
ReleaseNoNotify(r) ==
    /\ req[r].pc = "leaving"
    /\ semCur' = semCur - 1
    /\ req' = [req EXCEPT ![r].pc = "done", ![r].releases = @ + 1]
    /\ UNCHANGED <<connVars, baseVars, semWaiters, lastAdd, notSem>>

\* Faulty variant of Release: not deferred, so not reached from the return of
\* the switch's default case.
ReleaseOnSuccess(r) ==
    /\ req[r].pc = "leaving"
    /\ IF req[r].loaded
       THEN LET k == Woken(semCur - 1, semWaiters)
            IN  /\ semCur' = semCur - 1 + k
                /\ semWaiters' = SubSeq(semWaiters, k + 1, Len(semWaiters))
                /\ req' = [q \in Requests |->
                             IF q = r THEN [req[q] EXCEPT !.pc = "done", !.releases = @ + 1]
                             ELSE IF \E i \in 1..k : semWaiters[i] = q
                                  THEN [req[q] EXCEPT !.pc = "running"]
                                  ELSE req[q]]
       ELSE /\ req' = [req EXCEPT ![r].pc = "done"]
            /\ UNCHANGED <<semCur, semWaiters>>
    /\ UNCHANGED <<connVars, baseVars, lastAdd, notSem>>

\* The deferred player.lock.Release(1) of loadSelected: the slot is given
\* back and the oldest waiting calls take the free slots.
Release(r) ==
    /\ req[r].pc = "leaving"
    /\ LET k == Woken(semCur - 1, semWaiters)
       IN  /\ semCur' = semCur - 1 + k
           /\ semWaiters' = SubSeq(semWaiters, k + 1, Len(semWaiters))
           /\ req' = [q \in Requests |->
                        IF q = r THEN [req[q] EXCEPT !.pc = "done", !.releases = @ + 1]
                        ELSE IF \E i \in 1..k : semWaiters[i] = q
                             THEN [req[q] EXCEPT !.pc = "running"]
                             ELSE req[q]]
    /\ UNCHANGED <<connVars, baseVars, lastAdd, notSem>>

\* The add-media requests. A call that holds a slot goes on to its return and
\* its Release.
AcquireAny == \E r \in Requests : Acquire(r)
LoadSelectedAny == \E r \in Requests : LoadSelected(r)
ReleaseAny == \E r \in Requests : Release(r)

NextAdd ==
    \/ AcquireAny
    \/ LoadSelectedAny
    \/ ReleaseAny

SpecAdd ==
    /\ Init
    /\ [][NextAdd]_vars
    /\ \A r \in Requests : WF_vars(LoadSelected(r)) /\ WF_vars(Release(r))

\* C12: a request that finds every slot taken is not dropped: it waits in
\* Acquire and, running calls finishing, goes on to its own switch and load.
Proceeded(r) == req[r].pc \in {"leaving", "done"}
C12_BlockedRequestProceeds ==
    \A r \in Requests : (req[r].pc = "waiting") ~> Proceeded(r)

\* A request that waited in Acquire has performed its load.
C12_Witness ==
    \E r \in Requests : req[r].waited /\ req[r].loaded /\ req[r].pc = "done"

\* C13: the calls between Acquire and Release are never more than the limit,
\* the slots taken are exactly theirs, and each call has released once when
\* it is done and not before.
C13_SlotsBounded ==
    /\ Cardinality(Holding) <= addRateLimit
    /\ semCur = Cardinality(Holding)
    /\ \A r \in Requests : req[r].releases = IF req[r].pc = "done" THEN 1 ELSE 0

\* All requests are done, one of them after waiting, one by the return of the
\* default case, the latest by an error, and every slot is free again.
C13_Witness ==
    /\ \A r \in Requests : req[r].pc = "done"
    /\ \E r \in Requests : req[r].waited
    /\ \E r \in Requests : ~req[r].loaded
    /\ lastAdd.shownError
    /\ semCur = 0

\* C20: a failed LoadFile is reported to the caller: the item is not
\* announced as added, not put in the history and not given to the monitor.
C20_LoadFailurePropagates ==
    lastAdd.loadFailed =>
       /\ lastAdd.result # "nil"
       /\ ~lastAdd.added
       /\ ~lastAdd.history
       /\ ~lastAdd.monitored

\* ------------------------------------------------------------------ Call, Get, Set

\* MPV.Call, MPV.Get, MPV.Set, first statement: if m.Exited() the call returns
\* the connection-closed error; else it goes on to the transport.
TxCheck ==
    /\ txPc = "idle"
    /\ txCount < MaxCalls
    /\ txCount' = txCount + 1
    /\ \E k \in {"Call", "Get", "Set"} : txKind' = k
    /\ IF Exited
       THEN txPc' = "idle" /\ txResult' = ConnectionClosed
       ELSE txPc' = "checked" /\ txResult' = "nil"
    /\ UNCHANGED <<connVars, baseVars, txAttempts, notTx>>

\* The second statement: m.Connection.Call / Get / Set, on the connection as
\* it is by now.
TxTransport ==
    /\ txPc = "checked"
    /\ txAttempts' = txAttempts \cup {[kind |-> txKind, conn |-> conn]}
    /\ \E r \in (IF Reachable THEN {"nil", MpvError} ELSE {MpvError}) : txResult' = r
    /\ txPc' = "idle"
    /\ UNCHANGED <<connVars, baseVars, txKind, txCount, notTx>>

\* Calls of Call, Get and Set, with mpv exiting and the event listener closing
\* the connection at any time.
NextCall ==
    \/ MpvExit
    \/ ListenerClose
    \/ TxCheck
    \/ TxTransport

SpecCall == Init /\ [][NextCall]_vars

\* C14: Call, Get and Set fail fast when Exited(): no transport operation is
\* attempted on a connection that is closed, whenever the listener closes it.
C14_NoTransportOnClosed ==
    \A a \in txAttempts : a.conn = "open"

\* ------------------------------------------------------------------ Init and Exit

StartupFailed == "MPV: Could not start"
ConnectFailed == "MPV: Could not connect to socket"

\* The numretries strings given to Init: a number, or text that is none.
RetryInputs == {<<"number", n>> : n \in 0..MaxRetries} \cup {<<"text", 0>>}

\* strconv.Atoi with its error dropped: 0 for text that is not a number.
Atoi(str) == IF str[1] = "number" THEN str[2] ELSE 0

\* The session MPV records.
Session == <<mSocket, mConnection>>

\* connect, up to the loop: the process is spawned (command.Start) and
\* numretries is parsed.
InitSpawn ==
    /\ initPc = "start"
    /\ \E str \in RetryInputs, spawned \in BOOLEAN :
          /\ numretries' = str
          /\ IF spawned
             THEN /\ initPc' = "loop"
                  /\ mpvProc' = "running"
                  /\ retries' = Atoi(str)
                  /\ initI' = 0
                  /\ UNCHANGED initErr
             ELSE /\ initPc' = "failed"
                  /\ initErr' = StartupFailed
                  /\ UNCHANGED <<mpvProc, retries, initI>>
    /\ UNCHANGED <<connVars, baseVars, mSocket, mConnection, socketFile, tasks,
                   attempts, initFails, exitPc, exits, exitBegun, exitFailed, notSess>>

\* Faulty variant of InitOpen: the loop runs while i < retries.
InitOpenOffByOne ==
    /\ initPc = "loop"
    /\ IF initI < retries
       THEN \E opened \in BOOLEAN :
               /\ attempts' = attempts + 1
               /\ IF opened /\ mpvProc = "running"
                  THEN /\ mSocket' = "socket"
                       /\ mConnection' = "open"
                       /\ socketFile' = TRUE
                       /\ tasks' = TRUE
                       /\ initPc' = "done"
                       /\ UNCHANGED <<initI, initErr, initFails>>
                  ELSE /\ initI' = initI + 1
                       /\ initFails' = initFails + 1
                       /\ UNCHANGED <<initPc, initErr, mSocket, mConnection,
                                      socketFile, tasks>>
       ELSE /\ initPc' = "failed"
            /\ initErr' = ConnectFailed
            /\ UNCHANGED <<initI, mSocket, mConnection, socketFile, tasks,
                           attempts, initFails>>
    /\ UNCHANGED <<connVars, baseVars, numretries, retries, mpvProc, exitPc, exits,
                   exitBegun, exitFailed, notSess>>

\* connect's loop, one pass: conn.Open(); on success the session is recorded
\* and Init makes the monitor and starts its two tasks; on failure the loop
\* goes on after the delay; past the last pass connect fails.
InitOpen ==
    /\ initPc = "loop"
    /\ IF initI <= retries
       THEN \E opened \in BOOLEAN :
               /\ attempts' = attempts + 1
               /\ IF opened /\ mpvProc = "running"
                  THEN /\ mSocket' = "socket"
                       /\ mConnection' = "open"
                       /\ socketFile' = TRUE
                       /\ tasks' = TRUE
                       /\ initPc' = "done"
                       /\ UNCHANGED <<initI, initErr, initFails>>
                  ELSE /\ initI' = initI + 1
                       /\ initFails' = initFails + 1
                       /\ UNCHANGED <<initPc, initErr, mSocket, mConnection,
                                      socketFile, tasks>>
       ELSE /\ initPc' = "failed"
            /\ initErr' = ConnectFailed
            /\ UNCHANGED <<initI, mSocket, mConnection, socketFile, tasks,
                           attempts, initFails>>
    /\ UNCHANGED <<connVars, baseVars, numretries, retries, mpvProc, exitPc, exits,
                   exitBegun, exitFailed, notSess>>

\* MPV.Exited on the session: the connection is nil or closed.
SessExited == mConnection = "nil" \/ mConnection = "closed"

\* The mpv process ends, by itself or after a quit command.
SessMpvGone ==
    /\ mpvProc \in {"running", "quitting"}
    /\ initPc \in {"done", "failed"}
    /\ mpvProc' = "gone"
    /\ UNCHANGED <<connVars, baseVars, initPc, numretries, retries, initI, initErr,
                   mSocket, mConnection, socketFile, tasks, attempts, initFails,
                   exitPc, exits, exitBegun, exitFailed, notSess>>

\* eventListener on the ended stream: its deferred m.Connection.Close().
SessListenerClose ==
    /\ tasks
    /\ mpvProc = "gone"
    /\ mConnection = "open"
    /\ mConnection' = "closed"
    /\ UNCHANGED <<connVars, baseVars, initPc, numretries, retries, initI, initErr,
                   mSocket, mpvProc, socketFile, tasks, attempts, initFails,
                   exitPc, exits, exitBegun, exitFailed, notSess>>

\* Faulty variant of ExitQuit: the connection is used without the nil test of
\* Exited, which panics on a nil connection.
ExitQuitNoNilCheck ==
    /\ exitPc = "idle"
    /\ initPc \in {"done", "failed"}
    /\ exitBegun < MaxExits
    /\ exitBegun' = exitBegun + 1
    /\ exitPc' = "remove"
    /\ exitFailed' = (exitFailed \/ mConnection = "nil")
    /\ mpvProc' = IF mConnection = "open" /\ mpvProc = "running" THEN "quitting" ELSE mpvProc
    /\ UNCHANGED <<connVars, baseVars, initPc, numretries, retries, initI, initErr,
                   mSocket, mConnection, socketFile, tasks, attempts, initFails,
                   exits, notSess>>

\* MPV.Exit, first statement: m.Call("quit"), its result dropped. A running
\* mpv that gets the command starts to quit.
ExitQuit ==
    /\ exitPc = "idle"
    /\ initPc \in {"done", "failed"}
    /\ exitBegun < MaxExits
    /\ exitBegun' = exitBegun + 1
    /\ exitPc' = "remove"
    /\ mpvProc' = IF ~SessExited /\ mpvProc = "running" THEN "quitting" ELSE mpvProc
    /\ UNCHANGED <<connVars, baseVars, initPc, numretries, retries, initI, initErr,
                   mSocket, mConnection, socketFile, tasks, attempts, initFails,
                   exits, exitFailed, notSess>>

\* MPV.Exit, second statement: os.Remove(m.socket), its result dropped.
ExitRemove ==
    /\ exitPc = "remove"
    /\ exitPc' = "idle"
    /\ exits' = exits + 1
    /\ socketFile' = IF mSocket # "" THEN FALSE ELSE socketFile
    /\ UNCHANGED <<connVars, baseVars, initPc, numretries, retries, initI, initErr,
                   mSocket, mConnection, mpvProc, tasks, attempts, initFails,
                   exitBegun, exitFailed, notSess>>

\* The life of a session: Init, then Exit calls, with mpv ending at any time.
NextSession ==
    \/ InitSpawn
    \/ InitOpen
    \/ SessMpvGone
    \/ SessListenerClose
    \/ ExitQuit
    \/ ExitRemove

SpecSession == Init /\ [][NextSession]_vars

\* C15: Init opens the socket at most retryCount+1 times and stops at the
\* first success; StartupFailed comes without any attempt, ConnectFailed
\* exactly when all retryCount+1 attempts failed, and the session and the two
\* tasks exist only after a success.
C15_InitRetries ==
    /\ attempts <= retries + 1
    /\ initFails \in {attempts - 1, attempts}
    /\ initPc = "done" <=> (attempts = initFails + 1)
    /\ initPc = "done" => initErr = "nil"
    /\ initErr = StartupFailed => initPc = "failed" /\ attempts = 0 /\ mpvProc = "none"
    /\ initErr = ConnectFailed <=>
          (initPc = "failed" /\ mpvProc # "none" /\ attempts = retries + 1
              /\ initFails = attempts)
    /\ initPc = "failed" => initErr \in {StartupFailed, ConnectFailed}
    /\ (Session # <<"", "nil">> \/ tasks) => initPc = "done"
    /\ initPc = "done" => mSocket = "socket" /\ mConnection # "nil" /\ tasks
    /\ mpvProc # "none" => retries = Atoi(numretries)

\* Init succeeded at its last attempt, after failed ones.
C15_Witness ==
    /\ initPc = "done"
    /\ initFails > 0
    /\ attempts = retries + 1

\* C16: Exit is idempotent: no step of Exit fails, and a step of an Exit call
\* made after one has returned leaves the session, the socket file and the
\* process as they were.
ExitStep == ExitQuit \/ ExitRemove
C16_ExitIdempotent ==
    [][ExitStep => /\ ~exitFailed'
                   /\ exits >= 1 =>
                         <<Session, socketFile, mpvProc>>' = <<Session, socketFile, mpvProc>>]_vars

\* Exit has returned twice on a session Init had set up.
C16_Witness ==
    /\ exits >= 2
    /\ exitPc = "idle"
    /\ socketFile = FALSE
    /\ mSocket = "socket"

\* ------------------------------------------------------------------ dispatcher

\* mpv reports a change of its playlist: an event with ID 1 (the observed
\* property) that carries the whole playlist.
MpvPlaylistChange ==
    /\ stream = "open"
    /\ playlist # plSeen
    /\ Len(events) < MaxEvents
    /\ plSeen' = playlist
    /\ events' = Append(events, [name |-> "playlist", id |-> 0, err |-> NoFileError])
    /\ UNCHANGED <<connVars, playlist, nextId, playing, started, chanVars, monitor,
                   lpVars, lfVars, histVars, loopVars, barVars, DataEvent,
                   FileLoadedEvent, loadedFor, notDisp>>

\* mpv plays an entry once more (loop mode, or a step back in the queue) and
\* writes start-file with the same entry id.
MpvRestartFile ==
    /\ stream = "open"
    /\ playing = 0
    /\ Len(events) < MaxEvents
    /\ \E i \in 1..Len(playlist) :
          /\ playlist[i].id \in started
          /\ playing' = playlist[i].id
          /\ events' = Append(events, [name |-> "start-file", id |-> playlist[i].id, err |-> NoFileError])
    /\ loadedFor' = 0
    /\ UNCHANGED <<connVars, playlist, nextId, started, chanVars, monitor, lpVars,
                   lfVars, histVars, loopVars, barVars, DataEvent, FileLoadedEvent,
                   plSeen, notDisp>>

\* mpv has loaded the playing entry and writes file-loaded.
MpvFileLoaded ==
    /\ stream = "open"
    /\ playing # 0
    /\ loadedFor # playing
    /\ Len(events) < MaxEvents
    /\ loadedFor' = playing
    /\ events' = Append(events, [name |-> "file-loaded", id |-> playing, err |-> NoFileError])
    /\ UNCHANGED <<connVars, playlist, nextId, playing, started, chanVars, monitor,
                   lpVars, lfVars, histVars, loopVars, barVars, DataEvent,
                   FileLoadedEvent, plSeen, notDisp>>

\* eventListener, an event with ID 1: the playlist is sent to Events.DataEvent
\* (the listener waits while the channel is full).
ListenPlaylist ==
    /\ events # <<>>
    /\ conn = "open"
    /\ Head(events).name = "playlist"
    /\ DataEvent < DataEventCap
    /\ DataEvent' = DataEvent + 1
    /\ events' = Tail(events)
    /\ UNCHANGED <<connVars, playlist, nextId, playing, started, chanVars, monitor,
                   lpVars, lfVars, histVars, loopVars, barVars, FileLoadedEvent,
                   plSeen, loadedFor, notDisp>>

\* eventListener, a file-loaded event: a value is sent to
\* Events.FileLoadedEvent (the listener waits while the channel is full).
ListenFileLoaded ==
    /\ events # <<>>
    /\ conn = "open"
    /\ Head(events).name = "file-loaded"
    /\ FileLoadedEvent < FileLoadedCap
    /\ FileLoadedEvent' = FileLoadedEvent + 1
    /\ events' = Tail(events)
    /\ UNCHANGED <<connVars, playlist, nextId, playing, started, chanVars, monitor,
                   lpVars, lfVars, histVars, loopVars, barVars, DataEvent,
                   plSeen, loadedFor, notDisp>>

\* The queue view receives a playlist from Events.DataEvent.
ReceiveData ==
    /\ DataEvent > 0
    /\ DataEvent' = DataEvent - 1
    /\ UNCHANGED <<connVars, baseVars, FileLoadedEvent, plSeen, loadedFor, notDisp>>

\* monitorMPVEvents receives from Events.FileLoadedEvent (and calls Show).
ReceiveFileLoaded ==
    /\ FileLoadedEvent > 0
    /\ FileLoadedEvent' = FileLoadedEvent - 1
    /\ UNCHANGED <<connVars, baseVars, DataEvent, plSeen, loadedFor, notDisp>>

\* The event listener between mpv, which writes events, and the consumers of
\* its four channels, which receive when they get to it.
NextDispatch ==
    \/ MpvExit
    \/ ListenerClose
    \/ LoadFile
    \/ LoadFileMonitor
    \/ MpvPlaylistChange
    \/ MpvStartFile
    \/ MpvRestartFile
    \/ MpvFileLoaded
    \/ MpvEndFile
    \/ ListenPlaylist
    \/ ListenStartFile
    \/ ListenFileLoaded
    \/ ListenEndFile
    \/ ReceiveData
    \/ ReceiveFileLoaded
    \/ startMonitor
    \/ monitorMPVEvents

SpecDispatch == Init /\ [][NextDispatch]_vars

\* The listener holds an event whose channel is full: its send waits for a
\* consumer, and no further event is read from the stream.
ListenerBlocked ==
    /\ conn = "open"
    /\ events # <<>>
    /\ LET e == Head(events)
       IN  \/ e.name = "playlist" /\ DataEvent >= DataEventCap
           \/ e.name = "start-file" /\ Len(FileNumber) >= SlotCap
           \/ e.name = "end-file" /\ ErrorSlot(e) /\ Len(ErrorNumber) >= SlotCap
           \/ e.name = "file-loaded" /\ FileLoadedEvent >= FileLoadedCap

\* C17: the event listener is never blocked by its consumers: whatever they
\* do, it can hand off the event it holds and read the next one.
C17_DispatcherNeverBlocked == ~ListenerBlocked

\* ------------------------------------------------------------------ progress loop

\* sendPlayingStatus: a non-blocking send on player.channel.
sendPlayingStatus(ch, p) == IF Len(ch) < ChannelCap THEN Append(ch, p) ELSE ch

\* Show, first statement: if playingStatus() { return }. Show is called when
\* something has begun to play.
ShowCheck(s) ==
    /\ showPc[s] = "idle"
    /\ shows < MaxShows
    /\ shows' = shows + 1
    /\ queuePos' = IF Reachable THEN 0 ELSE queuePos
    /\ showPc' = [showPc EXCEPT ![s] = IF playingFlag THEN "idle" ELSE "checked"]
    /\ UNCHANGED <<connVars, baseVars, playingFlag, visible, channel, stops, supCtx,
                   loops, snapshot, lastRefresh, notProg>>

\* Show, the rest: playingStatus(true), sendPlayingStatus(true), and the
\* player is added to the layout.
ShowSet(s) ==
    /\ showPc[s] = "checked"
    /\ showPc' = [showPc EXCEPT ![s] = "idle"]
    /\ playingFlag' = TRUE
    /\ channel' = sendPlayingStatus(channel, TRUE)
    /\ visible' = TRUE
    /\ UNCHANGED <<connVars, baseVars, shows, stops, supCtx, loops, queuePos,
                   snapshot, lastRefresh, notProg>>

\* The stop key: sendPlayingStatus(false).
StopKey ==
    /\ stops < MaxStops
    /\ stops' = stops + 1
    /\ channel' = sendPlayingStatus(channel, FALSE)
    /\ UNCHANGED <<connVars, baseVars, playingFlag, visible, showPc, shows, supCtx,
                   loops, queuePos, snapshot, lastRefresh, notProg>>

\* The loop ids not used yet.
FreeLoops == {l \in LoopIds : loops[l].state = "none"}

\* playingStatusCheck, one pass: an intent is received; false cancels the
\* current ctx; true makes a new ctx and starts a playerUpdateLoop with it.
Supervise ==
    /\ channel # <<>>
    /\ channel' = Tail(channel)
    /\ IF Head(channel)
       THEN /\ FreeLoops # {}
            /\ LET l == CHOOSE k \in FreeLoops : \A j \in FreeLoops : k <= j
               IN  /\ loops' = [loops EXCEPT ![l] = [state |-> "running", cancelled |-> FALSE]]
                   /\ supCtx' = l
       ELSE /\ loops' = IF supCtx # 0
                        THEN [loops EXCEPT ![supCtx].cancelled = TRUE]
                        ELSE loops
            /\ UNCHANGED supCtx
    /\ UNCHANGED <<connVars, baseVars, playingFlag, visible, showPc, shows, stops,
                   queuePos, snapshot, lastRefresh, notProg>>

\* MPV.QueuePosition for the outcome of its Get: 0 when the query failed.
QueuePosition(r) == IF r # "nil" THEN 0 ELSE queuePos

\* playerUpdateLoop, a tick or a refresh event: renderPlayer(cancel).
\* updateProgressAndInfo fails only on a queue position of -1; every other
\* query falls back to a default when it fails.
RenderPlayer(l) ==
    /\ loops[l].state = "running"
    /\ \E r \in GetOutcomes, rest \in GetOutcomes :
          LET ppos == QueuePosition(r)
              failed == r # "nil" \/ (ppos # -1 /\ rest # "nil")
          IN  IF ppos = -1
              THEN /\ loops' = [loops EXCEPT ![l].cancelled = TRUE]
                   /\ lastRefresh' = [failed |-> failed, updated |-> FALSE, cancelled |-> TRUE]
                   /\ UNCHANGED snapshot
              ELSE /\ snapshot' = IF failed THEN "fallback" ELSE "live"
                   /\ lastRefresh' = [failed |-> failed, updated |-> TRUE,
                                      cancelled |-> loops[l].cancelled]
                   /\ UNCHANGED loops
    /\ UNCHANGED <<connVars, baseVars, playingFlag, visible, channel, showPc, shows,
                   stops, supCtx, queuePos, notProg>>

\* playerUpdateLoop on ctx.Done(): Hide() (when the player is shown: the flag
\* is cleared, false is sent, the player leaves the layout, Stop and
\* QueueClear), the texts are emptied and the task returns.
LoopDone(l) ==
    /\ loops[l].state = "running"
    /\ loops[l].cancelled
    /\ loops' = [loops EXCEPT ![l].state = "done"]
    /\ snapshot' = "empty"
    /\ IF playingFlag
       THEN /\ playingFlag' = FALSE
            /\ channel' = sendPlayingStatus(channel, FALSE)
            /\ visible' = FALSE
            /\ queuePos' = IF Reachable THEN -1 ELSE queuePos
            /\ playing' = IF Reachable THEN 0 ELSE playing
            /\ playlist' = IF Reachable THEN <<>> ELSE playlist
            /\ clearMonitor
       ELSE UNCHANGED <<playingFlag, channel, visible, queuePos, playing, playlist,
                        monitor, cleared>>
    /\ UNCHANGED <<connVars, nextId, started, events, chanVars, lpVars, lfVars,
                   calls, handed, asked, renewed, unmonitored, published, lpQueue0,
                   lpMonitor0, loopVars, barVars, showPc, shows, stops, supCtx,
                   lastRefresh, notProg>>

\* mpv comes to the end of its queue: nothing plays any more.
MpvQueueEnds ==
    /\ stream = "open"
    /\ queuePos # -1
    /\ queuePos' = -1
    /\ UNCHANGED <<connVars, baseVars, playingFlag, visible, channel, showPc, shows,
                   stops, supCtx, loops, snapshot, lastRefresh, notProg>>

ShowCheckAny == \E s \in Showers : ShowCheck(s)
ShowSetAny == \E s \in Showers : ShowSet(s)
RenderPlayerAny == \E l \in LoopIds : RenderPlayer(l)
LoopDoneAny == \E l \in LoopIds : LoopDone(l)

\* The supervisor, its loop tasks and the senders of intents, with mpv
\* exiting and the connection closing at any time.
NextProgress ==
    \/ MpvExit
    \/ ListenerClose
    \/ MpvQueueEnds
    \/ ShowCheckAny
    \/ ShowSetAny
    \/ StopKey
    \/ Supervise
    \/ RenderPlayerAny
    \/ LoopDoneAny

SpecProgress == Init /\ [][NextProgress]_vars

\* C18: a refresh in which a status query failed does not update what the
\* player shows and cancels the loop's context (the loop then returns and
\* hides the player).
C18_FailedQueryStopsLoop ==
    lastRefresh.failed => ~lastRefresh.updated /\ lastRefresh.cancelled

\* The loop tasks that run on a context that is not cancelled.
ActiveLoops == {l \in LoopIds : loops[l].state = "running" /\ ~loops[l].cancelled}

\* C19: at most one progress loop task is active at any time.
C19_AtMostOneLoop == Cardinality(ActiveLoops) <= 1

\* ------------------------------------------------------------------ track monitor, the end of a file

\* The file with this entry id has ended and nothing of it is left to handle:
\* mpv started it and no longer plays it, the listener has handled its
\* events, and its id waits in neither Events.FileNumber nor
\* Events.ErrorNumber.
FileFinished(id) ==
    /\ id \in started
    /\ playing # id
    /\ \A i \in 1..Len(events) : events[i].id # id
    /\ \A i \in 1..Len(FileNumber) : FileNumber[i] # id
    /\ \A i \in 1..Len(ErrorNumber) : ErrorNumber[i] # id

\* C21: no entry stays in the monitor map after its file has finished, be it
\* with success or with an error.
C21_NoEntryAfterEnd == \A id \in DOMAIN monitor : ~FileFinished(id)

\* ------------------------------------------------------------------ LoadPlaylist: replace

\* C22: the step that begins a LoadPlaylist call comes before every loadfile
\* of the call; with replace it leaves the monitor map empty and, mpv being
\* reachable, the queue empty; without replace it leaves the queue and the
\* monitor map as they were.
C22_ReplaceClearsFirst ==
    [][/\ (LpCalls' # LpCalls => lpPc # "idle")
       /\ (lpPc = "idle" /\ lpPc' # "idle") =>
             /\ LpCalls' = <<>>
             /\ IF lpReplace'
                THEN /\ monitor' = <<>>
                     /\ (Reachable => playlist' = <<>>)
                ELSE /\ monitor' = monitor
                     /\ playlist' = playlist
                     /\ cleared' = cleared]_vars

C22_Witness ==
    /\ lpPc = "done"
    /\ lpReplace
    /\ lpQueue0 # <<>>
    /\ lpMonitor0 # <<>>
    /\ LpCalls # <<>>
    /\ \A id \in DOMAIN lpMonitor0 : id \in cleared
    /\ \A i \in 1..Len(lpQueue0) : lpQueue0[i].id \notin Ids(playlist)

\* ------------------------------------------------------------------ the end of the event stream

\* The event listener and the monitor's tasks while mpv plays, replays and
\* ends entries, and exits.
NextTeardown ==
    \/ MpvExit
    \/ ListenerClose
    \/ LoadFile
    \/ LoadFileMonitor
    \/ MpvStartFile
    \/ MpvRestartFile
    \/ MpvEndFile
    \/ ListenStartFile
    \/ ListenEndFile
    \/ startMonitor
    \/ monitorMPVEvents

\* The tasks are goroutines of their own and take every step they can: the
\* event listener, startMonitor, monitorMPVEvents, and a LoadFile call on its
\* way to addToMonitor. Loads are begun when the user asks for them.
SpecTeardown ==
    /\ Init
    /\ [][NextTeardown]_vars
    /\ WF_vars(ListenerClose)
    /\ WF_vars(ListenStartFile)
    /\ WF_vars(ListenEndFile)
    /\ WF_vars(startMonitor)
    /\ WF_vars(monitorMPVEvents)
    /\ WF_vars(LoadFileMonitor)

\* C23: once the event stream is closed the listener returns and closes the
\* connection; on the closed connection Exited() holds and every command
\* fails with ConnectionClosed; and the connection is closed by that step of
\* the listener only, and stays closed.
C23_StreamCloseClosesConnection ==
    /\ (stream = "closed") ~> (conn = "closed")
    /\ [](conn = "closed" => Exited /\ CallOutcomes = {ConnectionClosed})
    /\ [][conn' # conn => stream = "closed" /\ events = <<>> /\ conn' = "closed"]_vars

\* ------------------------------------------------------------------ progress loop: the ticker

\* Time passes. A running ticker whose period has elapsed puts a tick in
\* t.C, which holds one: a tick that finds the channel full is dropped.
Advance ==
    /\ now < MaxClock
    /\ now' = now + 1
    /\ IF tkPc # "done" /\ now' = deadline
       THEN tC' = TRUE /\ deadline' = deadline + Period
       ELSE UNCHANGED <<tC, deadline>>
    /\ UNCHANGED <<connVars, baseVars, playerEvents, signals, tkPc, tkSince, tkTimer,
                   notTick>>

\* sendPlayerEvents: a non-blocking send on player.events.
sendPlayerEvents ==
    /\ signals < MaxSignals
    /\ signals' = signals + 1
    /\ playerEvents' = IF playerEvents < EventsCap THEN playerEvents + 1 ELSE playerEvents
    /\ UNCHANGED <<connVars, baseVars, now, deadline, tC, tkPc, tkSince, tkTimer,
                   notTick>>

\* playerUpdateLoop, case <-player.events: the signal is received and
\* renderPlayer begins.
LoopEvent ==
    /\ tkPc = "select"
    /\ playerEvents > 0
    /\ playerEvents' = playerEvents - 1
    /\ tkPc' = "render"
    /\ UNCHANGED <<connVars, baseVars, now, deadline, tC, signals, tkSince, tkTimer,
                   notTick>>

\* The same case, after renderPlayer returned: t.Reset(1 * time.Second). The
\* next tick is due one period from now; t.C is left as it is.
LoopReset ==
    /\ tkPc = "render"
    /\ deadline' = now + Period
    /\ tkSince' = now
    /\ tkPc' = "select"
    /\ UNCHANGED <<connVars, baseVars, now, tC, playerEvents, signals, tkTimer,
                   notTick>>

\* playerUpdateLoop, case <-t.C: the tick is received and renderPlayer runs.
LoopTick ==
    /\ tkPc = "select"
    /\ tC
    /\ tC' = FALSE
    /\ tkTimer' = [at |-> now, since |-> tkSince]
    /\ UNCHANGED <<connVars, baseVars, now, deadline, playerEvents, signals, tkPc,
                   tkSince, notTick>>

\* playerUpdateLoop, case <-ctx.Done(): the loop returns and the deferred
\* t.Stop() runs.
LoopReturn ==
    /\ tkPc = "select"
    /\ tkPc' = "done"
    /\ UNCHANGED <<connVars, baseVars, now, deadline, tC, playerEvents, signals,
                   tkSince, tkTimer, notTick>>

\* One progress loop on its ticker and player.events: a select with several
\* cases ready takes any of them.
NextTicker ==
    \/ Advance
    \/ sendPlayerEvents
    \/ LoopEvent
    \/ LoopReset
    \/ LoopTick
    \/ LoopReturn

SpecTicker == Init /\ [][NextTicker]_vars

\* C24: a refresh that the ticker triggers comes no sooner than one full
\* period after the latest t.Reset, that is after the latest refresh that a
\* signal on player.events triggered.
C24_ResetDefersTick ==
    tkTimer.since # -1 => tkTimer.at - tkTimer.since >= Period

\* ------------------------------------------------------------------ progress loop: its end

\* The supervisor and the loop tasks are goroutines of their own and take
\* every step they can: an intent in player.channel is received, a loop
\* whose ctx is cancelled returns, a running loop refreshes on its ticker,
\* and a Show call past its test goes on.
SpecProgressLive ==
    /\ Init
    /\ [][NextProgress]_vars
    /\ WF_vars(Supervise)
    /\ \A l \in LoopIds : WF_vars(LoopDone(l)) /\ WF_vars(RenderPlayer(l))
    /\ \A s \in Showers : WF_vars(ShowSet(s))

\* A false intent waits in player.channel.
FalseIntent == \E i \in 1..Len(channel) : ~channel[i]

\* C25: a loop task returns on a cancelled ctx only; a loop that runs when a
\* false intent is sent, or that has cancelled its own ctx, returns in the
\* end; and when a loop has returned the player is marked not playing and
\* hidden, the monitor map is empty and, mpv being reachable, playback is
\* stopped and the queue empty.
C25_CancelStopsAndHides ==
    /\ [][\A l \in LoopIds :
            (loops[l].state = "running" /\ loops'[l].state = "done") =>
                /\ loops[l].cancelled
                /\ ~playingFlag' /\ ~visible'
                /\ monitor' = <<>>
                /\ (Reachable => queuePos' = -1 /\ playlist' = <<>>)]_vars
    /\ \A l \in LoopIds :
          (loops[l].state = "running" /\ (FalseIntent \/ loops[l].cancelled))
              ~> (loops[l].state = "done")

\* ------------------------------------------------------------------ end-file events

\* An end-file event of another shape: with an empty file_error, or, from
\* an mpv that does not report entry ids, without playlist_entry_id.
MpvEndFileBare ==
    /\ stream = "open"
    /\ playing # 0
    /\ Len(events) < MaxEvents
    /\ \E id \in {playing, NoEntryId}, err \in {NoFileError, "", FileError} :
          /\ id = NoEntryId \/ err = ""
          /\ events' = Append(events, [name |-> "end-file", id |-> id, err |-> err])
    /\ playing' = 0
    /\ UNCHANGED <<connVars, playlist, nextId, started, chanVars, monitor, lpVars,
                   lfVars, histVars, loopVars, barVars, extVars>>

\* The event listener and the drain task with end-file events of every shape.
NextEndFile ==
    \/ MpvExit
    \/ ListenerClose
    \/ MpvStartFile
    \/ MpvEndFile
    \/ MpvEndFileBare
    \/ ListenStartFile
    \/ ListenEndFile
    \/ startMonitor
    \/ LoadFile
    \/ LoadFileMonitor

SpecEndFile == Init /\ [][NextEndFile]_vars

\* C26: when the listener handles an end-file event, the event's entry id is
\* appended to Events.ErrorNumber if the event carries a file_error that is
\* not the empty string and an entry id, and Events.ErrorNumber is left as
\* it is otherwise.
C26_ErrorSlotIff ==
    [][(events # <<>> /\ Head(events).name = "end-file" /\ events' = Tail(events)) =>
          LET e == Head(events)
          IN  IF e.err \notin {NoFileError, ""} /\ e.id # NoEntryId
              THEN ErrorNumber' = Append(ErrorNumber, e.id)
              ELSE ErrorNumber' = ErrorNumber]_vars

C26_Witness ==
    /\ ErrorNumber # <<>>
    /\ events # <<>>
    /\ Head(events).name = "end-file"
    /\ Head(events).err = ""
    /\ Head(events).id # NoEntryId

\* ------------------------------------------------------------------ addToMonitor

\* C27: a caller that has come to addToMonitor can always take the step,
\* whatever Events.FileNumber holds; the step takes the oldest pending id
\* and no other and records it with the caller's title, and without a
\* pending id it leaves Events.FileNumber and the monitor map as they were.
C27_AddToMonitorOneAttempt ==
    /\ [](lfPending # {} => ENABLED LoadFileMonitor)
    /\ [][Len(handed') = Len(handed) + 1 =>
            IF FileNumber # <<>>
            THEN /\ FileNumber' = Tail(FileNumber)
                 /\ monitor' = Record(monitor, Head(FileNumber), handed'[Len(handed')])
            ELSE /\ FileNumber' = FileNumber
                 /\ monitor' = monitor]_vars

C27_Witness ==
    /\ Len(handed) = 2
    /\ handed[1] \in unmonitored
    /\ \E id \in DOMAIN monitor : monitor[id] = handed[2]
    /\ FileNumber # <<>>

\* ------------------------------------------------------------------ startMonitor

\* C28: the drain task can take its step whenever an id waits in
\* Events.ErrorNumber, whatever Events.ErrorEvent holds. The step takes the
\* oldest id, removes it from the monitor map, and sends the title read for
\* it to Events.ErrorEvent when the channel has room; with the channel full
\* the title is dropped and the channel left as it is. The entry is gone
\* from the map with the step, so it is published once at most.
C28_DrainPublishesOnce ==
    /\ [](ErrorNumber # <<>> => ENABLED startMonitor)
    /\ [][(ErrorNumber # <<>> /\ ErrorNumber' = Tail(ErrorNumber)) =>
            LET id == Head(ErrorNumber)
            IN  /\ monitor' = Delete(monitor, id)
                /\ id \notin DOMAIN monitor'
                /\ IF Len(ErrorEvent) < ErrorEventCap
                   THEN ErrorEvent' = Append(ErrorEvent, Lookup(monitor, id))
                   ELSE ErrorEvent' = ErrorEvent]_vars

C28_Witness ==
    /\ \E q \in published : q.title # NoTitle /\ q.id \notin DOMAIN monitor
    /\ Len(ErrorEvent) = ErrorEventCap
    /\ ErrorNumber # <<>>
    /\ Head(ErrorNumber) \in DOMAIN monitor

\* ------------------------------------------------------------------ status queries

\* Faulty variant of Paused: a failed query answers true.
PausedTrueOnError(r) == IF r # "nil" THEN TRUE ELSE props["pause"]

\* MPV.Paused, Shuffled, Muted, Finished and Buffering for the outcome of
\* their Get: on a failed query false, and for Buffering true.
Paused(r) == IF r # "nil" THEN FALSE ELSE props["pause"]
Shuffled(r) == IF r # "nil" THEN FALSE ELSE props["shuffle"]
Muted(r) == IF r # "nil" THEN FALSE ELSE props["mute"]
Finished(r) == IF r # "nil" THEN FALSE ELSE props["eof-reached"]
Buffering(r) == IF r # "nil" THEN TRUE ELSE props["paused-for-cache"]

\* MPV.QueueCount for the outcome of its Get: 0 when the query failed.
QueueCount(r) == IF r # "nil" THEN 0 ELSE Len(playlist)

\* The queries that answer with a bool, and those that answer with an int.
FlagQueries == {"Paused", "Shuffled", "Muted", "Finished", "Buffering"}
NumberQueries == {"Volume", "QueueCount", "QueuePosition"}

\* mpv changes one of its boolean properties (a key in its window, the end
\* of a file, the cache running dry).
MpvCycle ==
    /\ stream = "open"
    /\ \E p \in BoolProps : props' = [props EXCEPT ![p] = ~props[p]]
    /\ UNCHANGED <<connVars, baseVars, stLast, stCount, notStat>>

\* One status query: its m.Get, and the value it returns to its caller.
StatusQuery ==
    /\ stCount < MaxQueries
    /\ stCount' = stCount + 1
    /\ \E q \in FlagQueries \cup NumberQueries, r \in GetOutcomes :
          stLast' = [query |-> q,
                     failed |-> r # "nil",
                     flag |-> CASE q = "Paused" -> Paused(r)
                                [] q = "Shuffled" -> Shuffled(r)
                                [] q = "Muted" -> Muted(r)
                                [] q = "Finished" -> Finished(r)
                                [] q = "Buffering" -> Buffering(r)
                                [] OTHER -> FALSE,
                     number |-> CASE q = "Volume" -> Volume(r)
                                  [] q = "QueueCount" -> QueueCount(r)
                                  [] q = "QueuePosition" -> QueuePosition(r)
                                  [] OTHER -> 0]
    /\ UNCHANGED <<connVars, baseVars, props, notStat>>

\* Status queries while mpv changes its properties, exits, and the listener
\* closes the connection.
NextStatus ==
    \/ MpvExit
    \/ ListenerClose
    \/ MpvVolume
    \/ MpvCycle
    \/ StatusQuery

SpecStatus == Init /\ [][NextStatus]_vars

\* C29: a status query whose Get failed has returned its fallback value to
\* the caller: -1 for Volume, false for Paused, Muted and Shuffled.
C29_FallbackOnFailedGet ==
    stLast.failed =>
        /\ (stLast.query = "Volume" => stLast.number = -1)
        /\ (stLast.query \in {"Paused", "Muted", "Shuffled"} => stLast.flag = FALSE)

C29_Witness ==
    /\ stLast.failed
    /\ stLast.query = "Paused"
    /\ props["pause"]
    /\ ~stLast.flag
    /\ Volume("nil") > 0

\* ------------------------------------------------------------------ progress loop: the playing flag

\* No intent waits in player.channel, no Show call is between its test and
\* its send (Hide runs within the step of the loop that returns), and no
\* loop with a cancelled ctx has yet to return.
Quiescent ==
    /\ channel = <<>>
    /\ \A s \in Showers : showPc[s] = "idle"
    /\ \A l \in LoopIds : ~(loops[l].state = "running" /\ loops[l].cancelled)

\* C30: in a quiescent state the playing flag is true if and only if a
\* progress loop task is running.
C30_FlagIffLoopRunning ==
    Quiescent => (playingFlag <=> \E l \in LoopIds : loops[l].state = "running")

\* ------------------------------------------------------------------ LoadPlaylist: renewed lines

\* The file has a live line, and each of its parseable lines is a live line
\* that renewLiveURL reported renewed.
OnlyRenewedLines ==
    /\ \E i \in 1..Len(lpFile) : lpFile[i] = "live"
    /\ \A i \in 1..Len(lpFile) :
          Parseable(lpFile[i]) => lpFile[i] = "live" /\ i \in renewed

====
